---- MODULE Spec2Model ----
(***************************************************************************)
(* Aggregation layer of the modified-SCRAPE PVSS scheme:                   *)
(*   src/src/modified_scrape/pvss.rs   PVSSCore                            *)
(*   src/src/modified_scrape/share.rs  SignedProof, PVSSShare,             *)
(*                                     PVSSAggregatedShare                 *)
(* Group elements (G1Projective, G2Projective) are modelled by the cyclic  *)
(* group Z_GroupOrder; a Result is a record with kind "Ok" or "Err", and   *)
(* an unwrap() of an Err is the kind "Panic" (the thread aborts).          *)
(***************************************************************************)
EXTENDS Integers, Sequences, FiniteSets, TLC

VARIABLES aggr_share, folded, last, pc,
          a, b, c, ab, ba, left, right,
          core1, core2, result

vars == <<aggr_share, folded, last, pc, a, b, c, ab, ba, left, right,
          core1, core2, result>>

foldVars == <<aggr_share, folded, last, pc>>
mergeVars == <<a, b, c, ab, ba, left, right>>
coreVars == <<core1, core2, result>>

(***************************************************************************)
(* Bounds of the model.                                                    *)
(***************************************************************************)
\* order of the cyclic group standing for G1 and G2
GroupOrder == 3
\* n of the transcript the aggregator folds shares into
NumParticipants == 3
\* t of that transcript
Degree == 1
\* number of successful folds the aggregator performs
MaxFolds == 3
\* longest encs and comms of the operands of PVSSCore::aggregate
MaxCoreLen == 2
\* smallest n of the operands of a merge (they have n or n + 1 participants)
MergeN == 1

(***************************************************************************)
(* Results and errors (modified_scrape::errors::PVSSError).                *)
(***************************************************************************)
Ok(v) == [kind |-> "Ok", val |-> v]
Err(e) == [kind |-> "Err", err |-> e]
Panic(e) == [kind |-> "Panic", err |-> e]
Pending == [kind |-> "Pending"]

EmptyEncryptionsVectorError ==
    [name |-> "EmptyEncryptionsVectorError", args |-> <<>>]
MismatchedCommitmentsError(l1, l2) ==
    [name |-> "MismatchedCommitmentsError", args |-> <<l1, l2>>]
MismatchedEncryptionsError(l1, l2) ==
    [name |-> "MismatchedEncryptionsError", args |-> <<l1, l2>>]
MismatchedCommitmentsEncryptionsError(l1, l2) ==
    [name |-> "MismatchedCommitmentsEncryptionsError", args |-> <<l1, l2>>]
TranscriptDifferentConfig(d1, d2, n1, n2) ==
    [name |-> "TranscriptDifferentConfig", args |-> <<d1, d2, n1, n2>>]
TranscriptDifferentCommitments ==
    [name |-> "TranscriptDifferentCommitments", args |-> <<>>]

\* Result::unwrap: the value of an Ok, a panic carrying the error of an Err
Unwrap(r) == IF r.kind = "Err" THEN Panic(r.err) ELSE r

(***************************************************************************)
(* Group arithmetic: `+` and zero() of G1Projective / G2Projective.        *)
(***************************************************************************)
Group == 0 .. (GroupOrder - 1)
GroupZero == 0
GroupAdd(x, y) == (x + y) % GroupOrder

Min(x, y) == IF x <= y THEN x ELSE y

\* iter().zip(other.iter()).map(|(e1, e2)| *e1 + *e2).collect()
ZipAdd(s1, s2) == [i \in 1 .. Min(Len(s1), Len(s2)) |-> GroupAdd(s1[i], s2[i])]

(***************************************************************************)
(* PVSSCore (pvss.rs).                                                     *)
(***************************************************************************)
PVSSCore_empty(num_participants) ==
    [encs  |-> [i \in 1 .. num_participants |-> GroupZero],
     comms |-> [i \in 1 .. num_participants |-> GroupZero]]

\* the sum with the commitments of `other` taken over unsummed
PVSSCore_aggregate_otherComms(self, other) ==
    IF Len(self.comms) = 0
    THEN Err(EmptyEncryptionsVectorError)
    ELSE IF Len(self.comms) # Len(other.comms)
    THEN Err(MismatchedCommitmentsError(Len(self.comms), Len(other.comms)))
    ELSE IF Len(self.encs) # Len(other.encs)
    THEN Err(MismatchedEncryptionsError(Len(self.encs), Len(other.encs)))
    ELSE IF Len(self.comms) # Len(self.encs)
    THEN Err(MismatchedCommitmentsEncryptionsError(Len(self.comms), Len(other.encs)))
    ELSE Ok([encs  |-> ZipAdd(self.encs, other.encs),
             comms |-> other.comms])

\* the difference e1 - e2 in place of the sum e1 + e2
PVSSCore_aggregate_sub(self, other) ==
    LET neg(s) == [i \in 1 .. Len(s) |-> (GroupOrder - s[i]) % GroupOrder]
    IN  IF Len(self.comms) = 0
        THEN Err(EmptyEncryptionsVectorError)
        ELSE IF Len(self.comms) # Len(other.comms)
        THEN Err(MismatchedCommitmentsError(Len(self.comms), Len(other.comms)))
        ELSE IF Len(self.encs) # Len(other.encs)
        THEN Err(MismatchedEncryptionsError(Len(self.encs), Len(other.encs)))
        ELSE IF Len(self.comms) # Len(self.encs)
        THEN Err(MismatchedCommitmentsEncryptionsError(Len(self.comms), Len(other.encs)))
        ELSE Ok([encs  |-> ZipAdd(self.encs, neg(other.encs)),
                 comms |-> ZipAdd(self.comms, neg(other.comms))])

\* the sum with the check of the encryption vector lengths left out
PVSSCore_aggregate_noEncsCheck(self, other) ==
    IF Len(self.comms) = 0
    THEN Err(EmptyEncryptionsVectorError)
    ELSE IF Len(self.comms) # Len(other.comms)
    THEN Err(MismatchedCommitmentsError(Len(self.comms), Len(other.comms)))
    ELSE IF Len(self.comms) # Len(self.encs)
    THEN Err(MismatchedCommitmentsEncryptionsError(Len(self.comms), Len(other.encs)))
    ELSE Ok([encs  |-> ZipAdd(self.encs, other.encs),
             comms |-> ZipAdd(self.comms, other.comms)])

PVSSCore_aggregate(self, other) ==
    IF Len(self.comms) = 0
    THEN Err(EmptyEncryptionsVectorError)
    ELSE IF Len(self.comms) # Len(other.comms)
    THEN Err(MismatchedCommitmentsError(Len(self.comms), Len(other.comms)))
    ELSE IF Len(self.encs) # Len(other.encs)
    THEN Err(MismatchedEncryptionsError(Len(self.encs), Len(other.encs)))
    ELSE IF Len(self.comms) # Len(self.encs)
    THEN Err(MismatchedCommitmentsEncryptionsError(Len(self.comms), Len(other.encs)))
    ELSE Ok([encs  |-> ZipAdd(self.encs, other.encs),
             comms |-> ZipAdd(self.comms, other.comms)])

(***************************************************************************)
(* SignedProof (share.rs).  proof_result and sig_result are what the       *)
(* collaborators DecompProof::verify and Signature::verify return.         *)
(***************************************************************************)
ProofInvalid == [name |-> "ProofInvalid", args |-> <<>>]
SignatureInvalid == [name |-> "SignatureInvalid", args |-> <<>>]

SignedProof_verify(proof_result, sig_result) ==
    IF Unwrap(proof_result).kind = "Panic"
    THEN Unwrap(proof_result)
    ELSE IF Unwrap(sig_result).kind = "Panic"
    THEN Unwrap(sig_result)
    ELSE Ok(<<>>)

(***************************************************************************)
(* PVSSAggregatedShare (share.rs).                                         *)
(***************************************************************************)
PVSSAggregatedShare_empty(degree, num_participants) ==
    [num_participants |-> num_participants,
     degree           |-> degree,
     pvss_core        |-> PVSSCore_empty(num_participants),
     contributions    |-> <<>>]

\* the check with the comparison of num_participants left out
DifferentConfig_degreeOnly(self, other) ==
    self.degree # other.degree

\* share.rs:98: the two transcripts are under different configurations
DifferentConfig(self, other) ==
    self.degree # other.degree \/ self.num_participants # other.num_participants

\* the merge keeping the proof of `other` for an id present in both
MergeContributions_preferOther(self, other) ==
    LET range == 0 .. (self.num_participants - 1)
        sc == self.contributions
        oc == other.contributions
    IN  IF \E i \in range :
               /\ i \in DOMAIN sc
               /\ i \in DOMAIN oc
               /\ sc[i].decomp_proof.gs # oc[i].decomp_proof.gs
        THEN Err(TranscriptDifferentCommitments)
        ELSE Ok([i \in {j \in range : j \in DOMAIN sc \/ j \in DOMAIN oc} |->
                    IF i \in DOMAIN oc THEN oc[i] ELSE sc[i]])

\* share.rs:108-130: the merged map, or the first error of the traversal
MergeContributions(self, other) ==
    LET range == 0 .. (self.num_participants - 1)
        sc == self.contributions
        oc == other.contributions
    IN  IF \E i \in range :
               /\ i \in DOMAIN sc
               /\ i \in DOMAIN oc
               /\ sc[i].decomp_proof.gs # oc[i].decomp_proof.gs
        THEN Err(TranscriptDifferentCommitments)
        ELSE Ok([i \in {j \in range : j \in DOMAIN sc \/ j \in DOMAIN oc} |->
                    IF i \in DOMAIN sc THEN sc[i] ELSE oc[i]])

\* the core of a participant already in self.contributions is not summed again
PVSSAggregatedShare_aggregate_dedupCore(self, other) ==
    IF DifferentConfig(self, other)
    THEN Err(TranscriptDifferentConfig(self.degree, other.degree,
                                       self.num_participants, other.num_participants))
    ELSE LET contributions == MergeContributions(self, other)
             core == IF DOMAIN self.contributions \cap DOMAIN other.contributions # {}
                     THEN Ok(self.pvss_core)
                     ELSE Unwrap(PVSSCore_aggregate(self.pvss_core, other.pvss_core))
         IN  IF contributions.kind = "Err"
             THEN contributions
             ELSE IF core.kind = "Panic"
             THEN core
             ELSE Ok([num_participants |-> self.num_participants,
                      degree           |-> self.degree,
                      pvss_core        |-> core.val,
                      contributions    |-> contributions.val])

PVSSAggregatedShare_aggregate(self, other) ==
    IF DifferentConfig(self, other)
    THEN Err(TranscriptDifferentConfig(self.degree, other.degree,
                                       self.num_participants, other.num_participants))
    ELSE LET contributions == MergeContributions(self, other)
             core == Unwrap(PVSSCore_aggregate(self.pvss_core, other.pvss_core))
         IN  IF contributions.kind = "Err"
             THEN contributions
             ELSE IF core.kind = "Panic"
             THEN core
             ELSE Ok([num_participants |-> self.num_participants,
                      degree           |-> self.degree,
                      pvss_core        |-> core.val,
                      contributions    |-> contributions.val])

aggregate_pvss_share(self, other) ==
    LET contribs == (other.participant_id :> other.signed_proof)
        other_agg_share == [num_participants |-> self.num_participants,
                            degree           |-> self.degree,
                            pvss_core        |-> other.pvss_core,
                            contributions    |-> contribs]
    IN  PVSSAggregatedShare_aggregate(self, other_agg_share)

(***************************************************************************)
(* Inputs: the shares a dealer may send to the aggregator.                 *)
(***************************************************************************)
\* a SignedProof: the commitment gs of the decomposition proof, the rest of
\* the proof (pi) and the signature on its digest
SignedProof(gs, pi, sig) ==
    [decomp_proof |-> [gs |-> gs, pi |-> pi], signature_on_decomp |-> sig]

ProofUniverse ==
    {SignedProof(1, 0, 0), SignedProof(1, 1, 1), SignedProof(2, 0, 0)}

\* cores with encs and comms of length n
GoodCores(n) ==
    {[encs  |-> [j \in 1 .. n |-> e],
      comms |-> [j \in 1 .. n |-> (e + j) % GroupOrder]] : e \in {1, 2}}

\* cores PVSSCore::aggregate rejects against a core of length n
BadCores(n) ==
    {[encs |-> <<>>, comms |-> <<>>],
     PVSSCore_empty(n + 1),
     [encs |-> [j \in 1 .. n |-> 1], comms |-> [j \in 1 .. n + 1 |-> 1]]}

PVSSShare(id, core, proof) ==
    [participant_id |-> id, pvss_core |-> core, signed_proof |-> proof]

\* what participant id deals: the first core with the first proof and the
\* second core with a proof of another gs; participant 0 also deals the first
\* core with a proof that differs in pi and signature only, and the second
\* core with the first proof
Dealings(id, n) ==
    {<<core, proof>> \in GoodCores(n) \X ProofUniverse :
        \/ core.encs[1] = 1 /\ proof = SignedProof(1, 0, 0)
        \/ core.encs[1] = 2 /\ proof = SignedProof(2, 0, 0)
        \/ id = 0 /\ core.encs[1] = 1 /\ proof = SignedProof(1, 1, 1)
        \/ id = 0 /\ core.encs[1] = 2 /\ proof = SignedProof(1, 0, 0)}

\* shares of the participant ids 0 .. n - 1, a share of the id n no
\* participant has, and shares of participant 0 with a malformed core
ShareUniverse ==
    UNION {{PVSSShare(id, d[1], d[2]) : d \in Dealings(id, NumParticipants)} :
              id \in 0 .. (NumParticipants - 1)}
    \cup
    {PVSSShare(NumParticipants, core, SignedProof(1, 0, 0)) :
        core \in {g \in GoodCores(NumParticipants) : g.encs[1] = 1}}
    \cup
    {PVSSShare(0, core, SignedProof(1, 0, 0)) : core \in BadCores(NumParticipants)}

VerifyResults == {Ok(<<>>), Err(ProofInvalid)}
SigResults == {Ok(<<>>), Err(SignatureInvalid)}

(***************************************************************************)
(* The aggregator: it verifies signed proofs and folds shares into the     *)
(* running transcript aggr_share.  `folded` is the history of the shares   *)
(* folded with success, `last` the last operation and what it returned.    *)
(***************************************************************************)
NoCore ==
    /\ core1 = PVSSCore_empty(NumParticipants)
    /\ core2 = core1
    /\ result = Pending

NoMerge ==
    /\ a = PVSSAggregatedShare_empty(Degree, NumParticipants)
    /\ b = a
    /\ c = a
    /\ ab = Pending
    /\ ba = Pending
    /\ left = Pending
    /\ right = Pending

Init ==
    /\ aggr_share = PVSSAggregatedShare_empty(Degree, NumParticipants)
    /\ folded = <<>>
    /\ last = [op |-> "none"]
    /\ pc = "running"
    /\ NoMerge
    /\ NoCore

\* sproof.verify(&conf, &pk_sig)
Verify(proof_result, sig_result) ==
    LET res == SignedProof_verify(proof_result, sig_result)
    IN  /\ pc = "running"
        /\ last' = [op |-> "verify", proof_result |-> proof_result,
                    sig_result |-> sig_result, res |-> res]
        /\ pc' = IF res.kind = "Panic" THEN "panicked" ELSE pc
        /\ UNCHANGED <<aggr_share, folded>>
        /\ UNCHANGED mergeVars
        /\ UNCHANGED coreVars

\* aggr_share = aggr_share.aggregate_pvss_share(&pvss_share), an Err leaving
\* the transcript as it was
Fold(share) ==
    LET res == aggregate_pvss_share(aggr_share, share)
    IN  /\ pc = "running"
        /\ Len(folded) < MaxFolds
        /\ last' = [op |-> "fold", share |-> share, res |-> res]
        /\ aggr_share' = IF res.kind = "Ok" THEN res.val ELSE aggr_share
        /\ folded' = IF res.kind = "Ok" THEN Append(folded, share) ELSE folded
        /\ pc' = IF res.kind = "Panic" THEN "panicked" ELSE pc
        /\ UNCHANGED mergeVars
        /\ UNCHANGED coreVars

VerifyStep == \E pr \in VerifyResults, sr \in SigResults : Verify(pr, sr)
FoldStep == \E share \in ShareUniverse : Fold(share)

Next == VerifyStep \/ FoldStep

Spec == Init /\ [][Next]_vars

(***************************************************************************)
(* Helpers of the claims about the aggregator.                             *)
(***************************************************************************)
\* folding the shares of seq one by one, as the tests do; the first failure ends it
RECURSIVE FoldFrom(_, _)
FoldFrom(agg, seq) ==
    IF seq = <<>>
    THEN Ok(agg)
    ELSE LET r == aggregate_pvss_share(agg, Head(seq))
         IN  IF r.kind = "Ok" THEN FoldFrom(r.val, Tail(seq)) ELSE r

EmptyTranscript == PVSSAggregatedShare_empty(Degree, NumParticipants)

\* a share of a participant id in [0, n) with a core of length n
WellFormedShare(s, n) ==
    /\ s.participant_id \in 0 .. (n - 1)
    /\ Len(s.pvss_core.encs) = n
    /\ Len(s.pvss_core.comms) = n

AllWellFormed(seq) ==
    \A k \in 1 .. Len(seq) : WellFormedShare(seq[k], NumParticipants)

DistinctIds(seq) ==
    \A i, j \in 1 .. Len(seq) :
        i # j => seq[i].participant_id # seq[j].participant_id

Perms(n) == {p \in [1 .. n -> 1 .. n] : \A i, j \in 1 .. n : p[i] = p[j] => i = j}

\* the sum in the group of the values v[1], ..., v[k]
RECURSIVE GroupSum(_, _)
GroupSum(v, k) == IF k = 0 THEN GroupZero ELSE (GroupSum(v, k - 1) + v[k]) % GroupOrder

\* the elementwise sum of the cores of the shares of seq, each of length n
SumOfCores(seq, n) ==
    [encs  |-> [j \in 1 .. n |->
                   GroupSum([k \in 1 .. Len(seq) |-> seq[k].pvss_core.encs[j]], Len(seq))],
     comms |-> [j \in 1 .. n |->
                   GroupSum([k \in 1 .. Len(seq) |-> seq[k].pvss_core.comms[j]], Len(seq))]]

\* C1: shares of pairwise distinct participant ids in [0, n), each with a core
\* of length n, folded into empty(t, n) in any order give the same transcript:
\* the transcript the aggregator holds is the one every order of its history
\* of folds yields.
C1_FoldOrderIndependent ==
    (AllWellFormed(folded) /\ DistinctIds(folded)) =>
        \A p \in Perms(Len(folded)) :
            FoldFrom(EmptyTranscript, [k \in 1 .. Len(folded) |-> folded[p[k]]])
                = Ok(aggr_share)

\* three shares of distinct participants have been folded
C1_Witness ==
    /\ Len(folded) = 3
    /\ AllWellFormed(folded)
    /\ DistinctIds(folded)
    /\ folded[1].pvss_core # folded[2].pvss_core
    /\ folded[1].participant_id > folded[3].participant_id

\* C8: after folds of shares of pairwise distinct ids in [0, n) with cores of
\* length n into empty(t, n), every fold has succeeded and the transcript has
\* num_participants = n, degree = t, contributions = the map from each folded
\* id to that share's signed proof, and pvss_core = the elementwise sum of the
\* folded cores.
C8_FoldResult ==
    /\ (AllWellFormed(folded) /\ DistinctIds(folded)) =>
          /\ aggr_share.num_participants = NumParticipants
          /\ aggr_share.degree = Degree
          /\ DOMAIN aggr_share.contributions
                = {folded[k].participant_id : k \in 1 .. Len(folded)}
          /\ \A k \in 1 .. Len(folded) :
                aggr_share.contributions[folded[k].participant_id]
                    = folded[k].signed_proof
          /\ aggr_share.pvss_core = SumOfCores(folded, NumParticipants)
    /\ (last.op = "fold" /\ last.res.kind # "Ok") =>
          ~ (/\ AllWellFormed(Append(folded, last.share))
             /\ DistinctIds(Append(folded, last.share)))

\* two shares with different cores and proofs have been folded
C8_Witness ==
    /\ Len(folded) = 2
    /\ AllWellFormed(folded)
    /\ DistinctIds(folded)
    /\ folded[1].pvss_core # folded[2].pvss_core
    /\ folded[1].signed_proof # folded[2].signed_proof
    /\ last.op = "fold"
    /\ last.res.kind = "Ok"

\* C7: a share (id in [0, n), core of length n) folded twice in succession:
\* once the first fold has succeeded the second succeeds too, the
\* contributions are those after the first fold, with one entry for the id,
\* and the core of the share is in pvss_core twice.
C7_DoubleFold ==
    LET L == Len(folded) IN
    /\ (L >= 2 /\ folded[L] = folded[L - 1]
             /\ WellFormedShare(folded[L], NumParticipants)) =>
          LET s == folded[L]
              before == FoldFrom(EmptyTranscript, SubSeq(folded, 1, L - 2)).val
              add2(x, y) == (x + y + y) % GroupOrder
          IN  /\ s.participant_id \in DOMAIN aggr_share.contributions
              /\ aggr_share.contributions =
                    [i \in DOMAIN before.contributions \cup {s.participant_id} |->
                        IF i \in DOMAIN before.contributions
                        THEN before.contributions[i] ELSE s.signed_proof]
              /\ aggr_share.pvss_core.encs =
                    [j \in 1 .. NumParticipants |->
                        add2(before.pvss_core.encs[j], s.pvss_core.encs[j])]
              /\ aggr_share.pvss_core.comms =
                    [j \in 1 .. NumParticipants |->
                        add2(before.pvss_core.comms[j], s.pvss_core.comms[j])]
    /\ (last.op = "fold" /\ L >= 1 /\ last.share = folded[L]
             /\ WellFormedShare(last.share, NumParticipants)) =>
          last.res.kind = "Ok"
    /\ (last.op = "fold" /\ last.res.kind # "Ok"
             /\ WellFormedShare(last.share, NumParticipants)) =>
          /\ last.share.participant_id \in DOMAIN aggr_share.contributions
          /\ aggr_share.contributions[last.share.participant_id].decomp_proof.gs
                # last.share.signed_proof.decomp_proof.gs

\* a share has been folded twice after another one
C7_Witness ==
    /\ Len(folded) = 3
    /\ folded[3] = folded[2]
    /\ folded[1].participant_id # folded[2].participant_id
    /\ WellFormedShare(folded[3], NumParticipants)
    /\ last.op = "fold"
    /\ last.res.kind = "Ok"
    /\ last.share = folded[3]

\* C9: aggregate and aggregate_pvss_share return every error of
\* PVSSCore::aggregate to the caller as an Err, and never panic.
C9_CoreErrorReturned ==
    last.op = "fold" =>
        /\ last.res.kind # "Panic"
        /\ LET sum == PVSSCore_aggregate(aggr_share.pvss_core, last.share.pvss_core)
           IN  (last.res.kind # "Ok" /\ sum.kind = "Err"
                    /\ last.res.err # TranscriptDifferentCommitments)
                  => last.res = Err(sum.err)

\* C10: SignedProof::verify returns a proof-invalid error when the
\* decomposition proof does not verify, a signature-invalid error when the
\* proof verifies and the signature does not, Ok(()) when both verify, and
\* never panics.
C10_VerifyReturnsFirstFailure ==
    last.op = "verify" =>
        /\ last.res.kind # "Panic"
        /\ last.proof_result.kind = "Err" => last.res = Err(ProofInvalid)
        /\ (last.proof_result.kind = "Ok" /\ last.sig_result.kind = "Err")
              => last.res = Err(SignatureInvalid)
        /\ (last.proof_result.kind = "Ok" /\ last.sig_result.kind = "Ok")
              => last.res = Ok(<<>>)

(***************************************************************************)
(* Merging transcripts: PVSSAggregatedShare::aggregate on operands that    *)
(* relays built or received.  The fields of PVSSAggregatedShare are public *)
(* and the type is CanonicalDeserialize, so an operand is any value of the *)
(* type; the operands are drawn from the universes below.                  *)
(*   ab = a.aggregate(b)                   ba = b.aggregate(a)             *)
(*   left = (a.aggregate(b)).aggregate(c)  right = a.aggregate(b.aggregate(c)) *)
(***************************************************************************)
\* the maps from a subset of ids to the proofs allowed for each id, proofsOf
\* being the function from the ids to their sets of proofs
PartialMaps(ids, proofsOf) ==
    UNION {{m \in [D -> UNION {proofsOf[i] : i \in D}] :
                \A i \in D : m[i] \in proofsOf[i]} : D \in SUBSET ids}

\* participant ids of the operands: in range for n = MergeN + 1, and MergeN
\* out of range for n = MergeN
MergeIds == 0 .. MergeN

MergeCores ==
    {[encs |-> [j \in 1 .. MergeN |-> 1], comms |-> [j \in 1 .. MergeN |-> 2]],
     [encs |-> [j \in 1 .. MergeN |-> 2], comms |-> [j \in 1 .. MergeN |-> j % GroupOrder]],
     [encs |-> [j \in 1 .. MergeN + 1 |-> 1], comms |-> [j \in 1 .. MergeN + 1 |-> 1]],
     [encs |-> <<>>, comms |-> <<>>],
     [encs |-> [j \in 1 .. MergeN |-> 1], comms |-> [j \in 1 .. MergeN + 1 |-> 1]]}

MergeConfigs ==
    {<<Degree, MergeN>>, <<Degree, MergeN + 1>>, <<Degree + 1, MergeN>>}

Transcript(cfg, core, contributions) ==
    [num_participants |-> cfg[2],
     degree           |-> cfg[1],
     pvss_core        |-> core,
     contributions    |-> contributions]

PairProofs == [i \in MergeIds |-> ProofUniverse]

PairUniverse ==
    {Transcript(cfg, core, m) :
        cfg \in MergeConfigs, core \in MergeCores,
        m \in PartialMaps(MergeIds, PairProofs)}


\* the ids of the operands of the two reductions: the first and the boundary id
TripleIds == {0, MergeN}

TripleProofs ==
    [i \in TripleIds |->
        IF i = 0 THEN ProofUniverse ELSE {SignedProof(1, 0, 0), SignedProof(2, 0, 0)}]

TripleCores ==
    {[encs |-> [j \in 1 .. MergeN |-> 1], comms |-> [j \in 1 .. MergeN |-> 2]],
     [encs |-> [j \in 1 .. MergeN |-> 2], comms |-> [j \in 1 .. MergeN |-> j % GroupOrder]],
     [encs |-> [j \in 1 .. MergeN + 1 |-> 1], comms |-> [j \in 1 .. MergeN + 1 |-> 2]]}

TripleUniverse ==
    {Transcript(cfg, core, m) :
        cfg \in {<<Degree, MergeN>>, <<Degree, MergeN + 1>>}, core \in TripleCores,
        m \in PartialMaps(TripleIds, TripleProofs)}

NoFold ==
    /\ aggr_share = EmptyTranscript
    /\ folded = <<>>
    /\ last = [op |-> "none"]
    /\ pc = "running"

InitMerge ==
    /\ NoFold
    /\ NoCore
    /\ a \in PairUniverse
    /\ b \in PairUniverse
    /\ c = EmptyTranscript
    /\ ab = Pending
    /\ ba = Pending
    /\ left = Pending
    /\ right = Pending

InitAssoc ==
    /\ NoFold
    /\ NoCore
    /\ a \in TripleUniverse
    /\ b \in TripleUniverse
    /\ c \in TripleUniverse
    /\ ab = Pending
    /\ ba = Pending
    /\ left = Pending
    /\ right = Pending

AggregateAB ==
    /\ ab = Pending
    /\ ab' = PVSSAggregatedShare_aggregate(a, b)
    /\ UNCHANGED <<a, b, c, ba, left, right>>
    /\ UNCHANGED foldVars
    /\ UNCHANGED coreVars

AggregateBA ==
    /\ ba = Pending
    /\ ba' = PVSSAggregatedShare_aggregate(b, a)
    /\ UNCHANGED <<a, b, c, ab, left, right>>
    /\ UNCHANGED foldVars
    /\ UNCHANGED coreVars

\* the incremental left fold: (a.aggregate(b))?.aggregate(c)
AggregateLeft ==
    LET first == PVSSAggregatedShare_aggregate(a, b)
    IN  /\ left = Pending
        /\ left' = IF first.kind = "Ok"
                    THEN PVSSAggregatedShare_aggregate(first.val, c)
                    ELSE first
        /\ UNCHANGED <<a, b, c, ab, ba, right>>
        /\ UNCHANGED foldVars
        /\ UNCHANGED coreVars

\* the tree reduction: a.aggregate(b.aggregate(c)?)
AggregateRight ==
    LET first == PVSSAggregatedShare_aggregate(b, c)
    IN  /\ right = Pending
        /\ right' = IF first.kind = "Ok"
                     THEN PVSSAggregatedShare_aggregate(a, first.val)
                     ELSE first
        /\ UNCHANGED <<a, b, c, ab, ba, left>>
        /\ UNCHANGED foldVars
        /\ UNCHANGED coreVars

NextMerge == AggregateAB \/ AggregateBA
NextAssoc == AggregateLeft \/ AggregateRight

SpecMerge == InitMerge /\ [][NextMerge]_vars
SpecAssoc == InitAssoc /\ [][NextAssoc]_vars

(***************************************************************************)
(* Claims about the merge.                                                 *)
(***************************************************************************)
SameConfig(x, y) ==
    x.degree = y.degree /\ x.num_participants = y.num_participants

IsError(r, name) == r.kind = "Err" /\ r.err.name = name

\* the ids both operands hold a proof for
SharedIds(x, y) == DOMAIN x.contributions \cap DOMAIN y.contributions

GsOf(x, i) == x.contributions[i].decomp_proof.gs

\* C2 as stated: a.aggregate(b) and b.aggregate(a) both fail, or both succeed
\* with equal pvss_core and equal contributions, the SignedProof under every
\* id included.
C2_Commutative ==
    (ab # Pending /\ ba # Pending) =>
        /\ ab.kind = "Ok" <=> ba.kind = "Ok"
        /\ ab.kind = "Ok" =>
              /\ ab.val.pvss_core = ba.val.pvss_core
              /\ ab.val.contributions = ba.val.contributions

\* C2 as amended: a.aggregate(b) and b.aggregate(a) both fail, or both succeed
\* with equal num_participants, degree and pvss_core and with contributions
\* of the same ids and the same gs under every id; the SignedProof under an
\* id is the same in both results unless both operands hold the id with
\* different SignedProofs, and then each result holds the proof of its own
\* first operand.
C2_CommutativeUpToTieBreak ==
    (ab # Pending /\ ba # Pending) =>
        /\ ab.kind = "Ok" <=> ba.kind = "Ok"
        /\ ab.kind = "Ok" =>
              /\ ab.val.num_participants = ba.val.num_participants
              /\ ab.val.degree = ba.val.degree
              /\ ab.val.pvss_core = ba.val.pvss_core
              /\ DOMAIN ab.val.contributions = DOMAIN ba.val.contributions
              /\ \A i \in DOMAIN ab.val.contributions :
                    /\ GsOf(ab.val, i) = GsOf(ba.val, i)
                    /\ IF i \in SharedIds(a, b) /\ a.contributions[i] # b.contributions[i]
                       THEN /\ ab.val.contributions[i] = a.contributions[i]
                            /\ ba.val.contributions[i] = b.contributions[i]
                       ELSE ab.val.contributions[i] = ba.val.contributions[i]

\* both merges succeeded on operands with different cores that hold one id
\* with different proofs and another id on one side only
C2_Witness ==
    /\ ab.kind = "Ok"
    /\ ba.kind = "Ok"
    /\ a.pvss_core # b.pvss_core
    /\ \E i \in SharedIds(a, b) :
          i < a.num_participants /\ a.contributions[i] # b.contributions[i]
    /\ \E i \in DOMAIN b.contributions :
          i < a.num_participants /\ i \notin DOMAIN a.contributions

\* C4: with equal degree and num_participants, the merge fails with
\* TranscriptDifferentCommitments if some id is present in both contributions
\* maps with unequal gs, and returns no such error if the gs are equal for
\* every id present in both.  Stated for operands whose cores can be summed,
\* so that no panic of the core sum stands in for the outcome.
C4_EquivocationDetected ==
    (/\ ab # Pending
     /\ SameConfig(a, b)
     /\ PVSSCore_aggregate(a.pvss_core, b.pvss_core).kind = "Ok") =>
        /\ (\E i \in SharedIds(a, b) : GsOf(a, i) # GsOf(b, i))
              => ab = Err(TranscriptDifferentCommitments)
        /\ (\A i \in SharedIds(a, b) : GsOf(a, i) = GsOf(b, i))
              => ~ IsError(ab, "TranscriptDifferentCommitments")

\* C5: a.aggregate(b) fails with TranscriptDifferentConfig(a.degree, b.degree,
\* a.num_participants, b.num_participants) whenever the degrees or the
\* participant counts differ, whatever the contributions and cores are, and
\* returns no such error when both match.
C5_ConfigIsolation ==
    ab # Pending =>
        IF a.degree # b.degree \/ a.num_participants # b.num_participants
        THEN ab = Err([name |-> "TranscriptDifferentConfig",
                       args |-> <<a.degree, b.degree,
                                  a.num_participants, b.num_participants>>])
        ELSE ~ IsError(ab, "TranscriptDifferentConfig")

\* a config error for participant counts that differ, returned although an
\* id is held with two different gs and the cores cannot be summed
C5_Witness ==
    /\ IsError(ab, "TranscriptDifferentConfig")
    /\ a.degree = b.degree
    /\ a.num_participants # b.num_participants
    /\ \E i \in SharedIds(a, b) : i < a.num_participants /\ GsOf(a, i) # GsOf(b, i)
    /\ PVSSCore_aggregate(a.pvss_core, b.pvss_core).kind = "Err"

\* C6: when a.aggregate(b) succeeds, for every id in [0, num_participants) the
\* result holds a's SignedProof if a has the id, b's if only b has it, and no
\* entry if neither has it.
C6_MergedContributions ==
    ab.kind = "Ok" =>
        \A i \in 0 .. (a.num_participants - 1) :
            /\ i \in DOMAIN a.contributions =>
                  /\ i \in DOMAIN ab.val.contributions
                  /\ ab.val.contributions[i] = a.contributions[i]
            /\ (i \notin DOMAIN a.contributions /\ i \in DOMAIN b.contributions) =>
                  /\ i \in DOMAIN ab.val.contributions
                  /\ ab.val.contributions[i] = b.contributions[i]
            /\ (i \notin DOMAIN a.contributions /\ i \notin DOMAIN b.contributions) =>
                  i \notin DOMAIN ab.val.contributions

\* a merge that succeeded on an id both hold with different proofs, with
\* another id only b holds
C6_Witness ==
    /\ ab.kind = "Ok"
    /\ \E i \in SharedIds(a, b) :
          i < a.num_participants /\ a.contributions[i] # b.contributions[i]
    /\ \E i \in DOMAIN b.contributions :
          i < a.num_participants /\ i \notin DOMAIN a.contributions

\* C3: (a.aggregate(b)).aggregate(c) and a.aggregate(b.aggregate(c)) both fail
\* (with an Err or a panic), or both succeed with equal results.
C3_Associative ==
    (left # Pending /\ right # Pending) =>
        /\ left.kind = "Ok" <=> right.kind = "Ok"
        /\ left.kind = "Ok" => left.val = right.val

\* both reductions succeeded on three operands that hold one id with
\* different proofs, c holding an id the others do not
C3_Witness ==
    /\ left.kind = "Ok"
    /\ right.kind = "Ok"
    /\ 0 \in SharedIds(a, b) \cap DOMAIN c.contributions
    /\ a.contributions[0] # b.contributions[0]
    /\ b.contributions[0] # c.contributions[0]
    /\ \E i \in DOMAIN c.contributions :
          /\ i < a.num_participants
          /\ i \notin DOMAIN a.contributions \cup DOMAIN b.contributions

(***************************************************************************)
(* Summing two cores: PVSSCore::aggregate on operands of any shape.  The   *)
(* fields of PVSSCore are public, so encs and comms of an operand may be   *)
(* of different lengths, or empty.                                         *)
(*   result = core1.aggregate(&core2)                                      *)
(***************************************************************************)
\* a group element and its negation
CoreValues == {1, GroupOrder - 1}

\* the vectors of length 0 .. MaxCoreLen over CoreValues
CoreVectors == UNION {[1 .. n -> CoreValues] : n \in 0 .. MaxCoreLen}

\* the cores of those vectors, and PVSSCore::empty(n) for every n
CoreUniverse ==
    {[encs |-> e, comms |-> v] : e \in CoreVectors, v \in CoreVectors}
    \cup
    {PVSSCore_empty(n) : n \in 0 .. MaxCoreLen}

InitCore ==
    /\ NoFold
    /\ NoMerge
    /\ core1 \in CoreUniverse
    /\ core2 \in CoreUniverse
    /\ result = Pending

\* let result = core1.aggregate(&core2)
CoreAggregate ==
    /\ result = Pending
    /\ result' = PVSSCore_aggregate(core1, core2)
    /\ UNCHANGED <<core1, core2>>
    /\ UNCHANGED foldVars
    /\ UNCHANGED mergeVars

NextCore == CoreAggregate

SpecCore == InitCore /\ [][NextCore]_vars

(***************************************************************************)
(* Claims about the sum of two cores.                                      *)
(***************************************************************************)
\* the pointwise negation of a vector
Negated(v) == [i \in 1 .. Len(v) |-> (GroupOrder - v[i]) % GroupOrder]

\* C11: whenever core1.aggregate(core2) succeeds, the result has encs and
\* comms of the length of the operands', result.encs[i] = core1.encs[i] +
\* core2.encs[i] and result.comms[i] = core1.comms[i] + core2.comms[i] for
\* every i; a core summed with its pointwise negation gives all-identity
\* vectors.
C11_PointwiseAddition ==
    result.kind = "Ok" =>
        /\ Len(result.val.encs) = Len(core1.encs)
        /\ Len(result.val.encs) = Len(core2.encs)
        /\ Len(result.val.comms) = Len(core1.comms)
        /\ Len(result.val.comms) = Len(core2.comms)
        /\ \A i \in 1 .. Len(core1.encs) :
              result.val.encs[i] = (core1.encs[i] + core2.encs[i]) % GroupOrder
        /\ \A i \in 1 .. Len(core1.comms) :
              result.val.comms[i] = (core1.comms[i] + core2.comms[i]) % GroupOrder
        /\ (core2.encs = Negated(core1.encs) /\ core2.comms = Negated(core1.comms)) =>
              /\ \A i \in 1 .. Len(core1.encs) : result.val.encs[i] = GroupZero
              /\ \A i \in 1 .. Len(core1.comms) : result.val.comms[i] = GroupZero

\* a core of the longest vectors, not all equal, summed with its negation
C11_Witness ==
    /\ result.kind = "Ok"
    /\ Len(core1.encs) = MaxCoreLen
    /\ core1.encs[1] # core1.encs[MaxCoreLen]
    /\ core1.comms # core1.encs
    /\ core2.encs = Negated(core1.encs)
    /\ core2.comms = Negated(core1.comms)

\* C12: PVSSCore::aggregate fails with MismatchedCommitmentsEncryptionsError
\* whenever, within one of the two operands, the comms length differs from
\* the encs length.
C12_WithinOperandMismatch ==
    (/\ result # Pending
     /\ \/ Len(core1.comms) # Len(core1.encs)
        \/ Len(core2.comms) # Len(core2.encs)) =>
        IsError(result, "MismatchedCommitmentsEncryptionsError")

\* C13 as stated: for every n, empty(n).aggregate(empty(n)) succeeds and
\* equals empty(n), and C.aggregate(empty(n)) equals C for every core C whose
\* encs and comms both have length n.
C13_EmptyIsNeutral ==
    (/\ result # Pending
     /\ Len(core1.encs) = Len(core1.comms)
     /\ core2 = PVSSCore_empty(Len(core1.encs))) =>
        result = Ok(core1)

\* C13 as amended: the same for every n >= 1; for n = 0 the sum fails with
\* EmptyEncryptionsVectorError.
C13_EmptyIsNeutralForPositiveN ==
    (/\ result # Pending
     /\ Len(core1.encs) = Len(core1.comms)
     /\ core2 = PVSSCore_empty(Len(core1.encs))) =>
        IF Len(core1.encs) >= 1
        THEN result = Ok(core1)
        ELSE result = Err(EmptyEncryptionsVectorError)

\* a core that is not all-identity summed with empty(n), and empty(n) with
\* itself, n being the longest length
C13_Witness ==
    /\ result.kind = "Ok"
    /\ core2 = PVSSCore_empty(MaxCoreLen)
    /\ \/ core1 = core2
       \/ /\ core1.encs[1] # GroupZero
          /\ core1.comms[MaxCoreLen] # GroupZero
          /\ core1.comms # core1.encs

\* C14: core1.aggregate(core2) returns Ok exactly when core1.comms,
\* core1.encs, core2.comms and core2.encs all have the same non-zero length,
\* and an Err in every other case; an Ok holds vectors of that length (no
\* truncated sum).
C14_TotalAndRejecting ==
    result # Pending =>
        LET n == Len(core1.comms)
            wellFormed == /\ n # 0
                          /\ Len(core1.encs) = n
                          /\ Len(core2.comms) = n
                          /\ Len(core2.encs) = n
        IN  /\ result.kind \in {"Ok", "Err"}
            /\ result.kind = "Ok" <=> wellFormed
            /\ result.kind = "Ok" =>
                  /\ Len(result.val.encs) = n
                  /\ Len(result.val.comms) = n

\* a sum rejected because only the encs of the second operand are longer
C14_Witness ==
    /\ result.kind = "Err"
    /\ Len(core1.comms) = 1
    /\ Len(core1.encs) = 1
    /\ Len(core2.comms) = 1
    /\ Len(core2.encs) = MaxCoreLen
    /\ MaxCoreLen > 1

\* C15: no contribution is lost by a merge: whenever
\* agg.aggregate_pvss_share(share) succeeds, the result's contributions has
\* an entry for share.participant_id, whatever id the share carries, and its
\* key set is the union of the ids folded so far (every core summed into
\* pvss_core has its proof recorded).
C15_NoContributionLost ==
    /\ (last.op = "fold" /\ last.res.kind = "Ok") =>
          last.share.participant_id \in DOMAIN last.res.val.contributions
    /\ DOMAIN aggr_share.contributions =
          {folded[k].participant_id : k \in 1 .. Len(folded)}

====
